---- MODULE Spec2Model ----
(***************************************************************************)
(* State-machine model of the `codemirror` Svelte action of neocodemirror  *)
(* (packages/svelte/src/index.ts, the revision with document mode): the    *)
(* asynchronous initialization, the update() reconciliation with its       *)
(* suspension points, the document swap, the change listener behind its    *)
(* debounce/throttle wrapper, and destroy().                               *)
(*                                                                         *)
(* The editor engine (@codemirror/state, @codemirror/view) is outside the  *)
(* repository.  It is modelled by the part of its contract the action      *)
(* relies on: a state is a document, a cursor, an undo stack and the       *)
(* content of the eight compartments; dispatch applies a transaction and   *)
(* calls the update listener; setState replaces the state without calling  *)
(* it; toJSON/fromJSON serialize the document, the selection and the       *)
(* requested fields.                                                       *)
(***************************************************************************)
EXTENDS Integers, Sequences, FiniteSets, TLC

--------------------------------------------------------------------------
(* Values of the JavaScript side.  Every option value is a string, every   *)
(* resolved extension is a sequence of strings, so that any two of them    *)
(* can be compared.                                                        *)

\* the two nullish values; destructuring defaults apply to `undefined` only
Undefined == "undefined"
Null == "null"

\* a thrown error / a rejected promise, as the outcome of a resolver
Err == <<"Error">>

\* the empty extension `[]`
Empty == <<>>

is_nullish(a) == a \in {Undefined, Null}

is_function(a) == a \in {"lintFn1", "lintFn2"}

\* Values that are JavaScript objects (typeof 'object', not null): extension
\* lists, language supports, themes, style maps, option objects.
ObjectValues ==
  { "ext1", "ext2", "ext12", "jsSupport", "htmlSupport", "theme1", "theme2",
    "styles1", "styles2", "maps1", "maps2", "mapsBad", "acOpts", "lintOpts1",
    "debounce50", "throttle50", "noFields" }

is_object(a) == ~is_nullish(a) /\ a \in ObjectValues

\* JSON.stringify(obj, Object.keys(obj).sort()): the array of top-level keys
\* is a property whitelist applied at every depth and functions are dropped,
\* so the string keeps the top-level shape only.  Two extension lists of the
\* same length whose elements are opaque engine objects serialize alike; so
\* do two language maps with the same keys (their values are functions).
sortedStr(obj) ==
  CASE obj \in {"ext1", "ext2"} -> "[{}]"
    [] obj = "ext12" -> "[{},{}]"
    [] obj \in {"maps1", "maps2", "mapsBad"} -> "{js}"
    [] OTHER -> obj

is_equal(a, b) ==
  IF ~is_object(a) \/ ~is_object(b) THEN a = b ELSE sortedStr(a) = sortedStr(b)

\* JavaScript truthiness of an option value
truthy(a) == ~is_nullish(a) /\ a \notin {"false", "0", ""}

\* the number written by a numeric option value
Num(a) ==
  CASE a = "0" -> 0 [] a = "1" -> 1 [] a = "2" -> 2 [] a = "3" -> 3
    [] a = "4" -> 4 [] OTHER -> 0

--------------------------------------------------------------------------
(* Configuration (NeoCodemirrorOptions) *)

\* document texts
TextA == "a"
TextB == "bb"

\* a configuration with every optional field left out
BaseOptions ==
  [ value |-> TextA, cursorPos |-> Undefined, setup |-> Undefined,
    lang |-> Undefined, langMap |-> Undefined, useTabs |-> Undefined,
    tabSize |-> Undefined, theme |-> Undefined, styles |-> Undefined,
    extensions |-> Undefined, readonly |-> Undefined,
    autocomplete |-> Undefined, lint |-> Undefined, lintOptions |-> Undefined,
    documentId |-> Undefined, documentFields |-> Undefined,
    onChangeBehavior |-> Undefined ]

\* `typeof lang === 'string'`: the language keys, as opposed to the
\* pre-resolved LanguageSupport objects
LangKeys == {"js", "xx", "toString"}

\* the keys a language map defines
LangMapKeys(m) == IF m \in {"maps1", "maps2", "mapsBad"} THEN {"js"} ELSE {}

\* the property names an object literal inherits from Object.prototype
Inherited == {"toString"}

\* `lang in langMap`: the `in` operator finds the keys the map defines and
\* the names it inherits
InLangMap(key, m) == key \in LangMapKeys(m) \cup Inherited

\* `await langMap[lang]()`: the factory's value, or its rejection; under an
\* inherited name the call is that of the method of Object.prototype
LangMapCall(m, key) ==
  CASE key \in Inherited -> <<"[object Object]">>
    [] m = "maps1" -> <<"jsSupport">>
    [] m = "maps2" -> <<"htmlSupport">>
    [] OTHER -> Err

--------------------------------------------------------------------------
(* Configuration resolvers *)

get_setup(o) ==
  IF is_nullish(o.setup) THEN Empty
  ELSE IF o.setup \in {"basic", "minimal"}
       THEN <<o.setup,
              IF o.autocomplete # "false" THEN "autocompletion" ELSE "[]",
              IF truthy(o.useTabs) THEN "indentWithTab" ELSE "[]">>
       ELSE Err

get_lang(o) ==
  IF is_nullish(o.lang) THEN Empty
  ELSE IF o.lang \in LangKeys
       THEN IF ~truthy(o.langMap) THEN Err
            ELSE IF ~InLangMap(o.lang, o.langMap) THEN Err
                 ELSE LangMapCall(o.langMap, o.lang)
       ELSE <<o.lang>>

\* EditorView.theme(styles)
EditorViewTheme(styles) ==
  CASE styles = "styles1" -> "theme(styles1)"
    [] styles = "styles2" -> "theme(styles2)"
    [] OTHER -> styles

get_theme(o) ==
  SelectSeq(<<o.theme, IF truthy(o.styles) THEN EditorViewTheme(o.styles) ELSE o.styles>>,
            LAMBDA e : truthy(e))

get_tab_setting(o) ==
  LET useTabs == IF o.useTabs = Undefined THEN "false" ELSE o.useTabs
      tabSize == IF o.tabSize = Undefined THEN "2" ELSE o.tabSize
  IN IF is_nullish(tabSize) THEN Empty
     ELSE <<"tabSize", tabSize, "indentUnit",
            IF truthy(useTabs) THEN "tab" ELSE "spaces",
            IF truthy(useTabs) THEN "1" ELSE tabSize>>

get_autocompletion(o) ==
  IF is_nullish(o.autocomplete) THEN Empty
  ELSE <<"autocompletion", IF is_object(o.autocomplete) THEN o.autocomplete ELSE "{}">>

get_readonly(o) == <<"readOnly", IF truthy(o.readonly) THEN "true" ELSE "false">>

get_user_extensions(o) == IF is_nullish(o.extensions) THEN Empty ELSE <<o.extensions>>

get_linter(o) ==
  IF is_nullish(o.lint) THEN Empty
  ELSE IF ~is_function(o.lint) THEN Err
       ELSE <<"linter", o.lint,
              IF is_nullish(o.lintOptions) THEN "{}" ELSE o.lintOptions>>

\* the compartments, one per facet
Compartments ==
  { "setup", "lang", "theming", "tabs", "readonly", "extensions",
    "autocomplete", "linter" }

\* the resolver make_extensions wraps in each compartment
Resolve(c, o) ==
  CASE c = "setup" -> get_setup(o)
    [] c = "lang" -> get_lang(o)
    [] c = "theming" -> get_theme(o)
    [] c = "tabs" -> get_tab_setting(o)
    [] c = "readonly" -> get_readonly(o)
    [] c = "extensions" -> get_user_extensions(o)
    [] c = "autocomplete" -> get_autocompletion(o)
    [] c = "linter" -> get_linter(o)

\* make_extensions rejects when one of the resolvers it awaits throws
make_extensions_fails(o) == \E c \in Compartments : Resolve(c, o) = Err

\* make_extensions: the content of every compartment, and the keymap that
\* stands outside the compartments
make_extensions(o) ==
  [c \in Compartments \cup {"keymap"} |->
     IF c = "keymap"
     THEN <<"defaultKeymap", IF truthy(o.useTabs) THEN "indentWithTab" ELSE "[]">>
     ELSE Resolve(c, o)]

--------------------------------------------------------------------------
(* The editor engine: EditorState and the operations the action calls *)

\* the document identities of document mode
DocIds == {"docA", "docB"}

\* the character a user types
Typed == "x"

\* EditorState.create({doc, extensions, selection}); a missing doc is the
\* empty document; the undo history starts empty
EditorStateCreate(doc, extensions, cursor) ==
  [doc |-> IF is_nullish(doc) THEN "" ELSE doc, sel |-> cursor, hist |-> <<>>,
   comps |-> extensions]

\* the history() extension is part of the basic and the minimal bundle
HasHistory(comps) == comps["setup"] # Empty

\* A transaction spec: `changes` is <<>> or one replacement of [0, to) by
\* `insert`; `selection` is <<>> or one cursor position; `effects` gives,
\* per compartment, <<>> or the one content it is reconfigured to.
NoEffects == [c \in Compartments |-> <<>>]

EmptyTransaction == [changes |-> <<>>, selection |-> <<>>, effects |-> NoEffects]

\* the compartments after the reconfigure effects of a transaction
Reconfigured(comps, effects) ==
  [c \in DOMAIN comps |->
     IF c \in Compartments /\ effects[c] # <<>> THEN effects[c][1] ELSE comps[c]]

\* the document after the changes of a transaction
ChangedDoc(doc, changes) ==
  IF changes = <<>> THEN doc
  ELSE changes[1].insert \o SubSeq(doc, changes[1].to + 1, Len(doc))

\* the cursor mapped through a replacement of [0, to): a position inside
\* the replaced range moves to its start, one behind it shifts
MappedCursor(cursor, changes) ==
  IF changes = <<>> THEN cursor
  ELSE IF cursor > changes[1].to
       THEN cursor - changes[1].to + Len(changes[1].insert)
       ELSE 0

\* a compartment content that is no extension: the engine throws when it
\* is asked to configure a state with it
Unrecognized(content) == content = <<"[object Object]">>

\* the engine throws a RangeError for a change that reaches beyond the
\* document and for a selection that points outside of the new document,
\* and an Error for an effect whose content is no extension
TransactionThrows(state, tr) ==
  \/ tr.changes # <<>> /\ tr.changes[1].to > Len(state.doc)
  \/ tr.selection # <<>> /\ tr.selection[1] > Len(ChangedDoc(state.doc, tr.changes))
  \/ \E c \in Compartments : tr.effects[c] # <<>> /\ Unrecognized(tr.effects[c][1])

\* state.update(tr).state.  A transaction that changes the document is
\* added to the undo history when the history extension is configured; the
\* entry keeps the text to go back to and, for the history claims, the
\* document identity `owner` under which the edit was made.  Removing the
\* history extension drops the history.
ApplyTransaction(state, tr, owner) ==
  LET doc == ChangedDoc(state.doc, tr.changes)
      comps == Reconfigured(state.comps, tr.effects)
      hist == IF ~HasHistory(comps) THEN <<>>
              ELSE IF doc # state.doc /\ HasHistory(state.comps)
                   THEN Append(state.hist, [prev |-> state.doc, owner |-> owner])
                   ELSE state.hist
  IN [doc |-> doc,
      sel |-> IF tr.selection # <<>> THEN tr.selection[1]
              ELSE MappedCursor(state.sel, tr.changes),
      hist |-> hist,
      comps |-> comps]

\* the user types a character at the end of the document
TypeTransaction(state) ==
  [changes |-> <<[to |-> Len(state.doc), insert |-> state.doc \o Typed]>>,
   selection |-> <<Len(state.doc) + 1>>,
   effects |-> NoEffects]

\* the undo command: back to the text before the last recorded edit
UndoState(state) ==
  LET last == state.hist[Len(state.hist)]
  IN [state EXCEPT !.doc = last.prev,
                   !.sel = Len(last.prev),
                   !.hist = SubSeq(state.hist, 1, Len(state.hist) - 1)]

\* the fields handed to toJSON / fromJSON: documentFields when it is an
\* object, DEFAULT_DOCUMENT_FIELDS = {history: historyField} otherwise
DocumentFields(o) ==
  IF is_object(o.documentFields) THEN {} ELSE {"history"}

\* state.toJSON(fields): the document, the selection, and each requested
\* field that the state has
toJSON(state, fields) ==
  [doc |-> state.doc, sel |-> state.sel,
   history |-> IF "history" \in fields /\ HasHistory(state.comps)
               THEN <<state.hist>> ELSE <<>>]

\* (mutant) the state is rebuilt without the serialized fields
fromJSON_WithoutFields(json, config, fields) ==
  [doc |-> json.doc, sel |-> json.sel, hist |-> <<>>, comps |-> config.extensions]

\* EditorState.fromJSON(json, config, fields).  The engine builds the state
\* from json.doc and json.selection and takes from `config` its extensions
\* only; a `doc` in the config is not read.  Each requested field present in
\* the JSON is initialised from it.
fromJSON(json, config, fields) ==
  [doc |-> json.doc, sel |-> json.sel,
   hist |-> IF "history" \in fields /\ json.history # <<>>
            THEN json.history[1] ELSE <<>>,
   comps |-> config.extensions]

--------------------------------------------------------------------------
(* Bounds of the model *)

\* update() calls made on the instance
MaxUpdates == 2

\* user edits and undos
MaxUserOps == 3

\* destroy() calls made on the instance
MaxDestroys == 2

\* user edits in the runs that follow the life of an instance
MaxLifecycleUserOps == 1

--------------------------------------------------------------------------
(* State *)

VARIABLES
  inputs,               \* the configurations the host passes (fixed per run)
  mount,                \* the codemirror(node, options) call: its argument
                        \* (<<>> when no options are passed) and its result
  initialized,          \* editor_initialized: "pending", "ready", or "failed"
                        \* when the initialization threw and never fulfils it
  options,              \* the remembered previous configuration
  value,                \* the text last seen by the action
  internal_extensions,  \* the extension list last assembled
  document_changed,     \* the swap-cause flag
  view,                 \* <<>> until created, then <<[state, destroyed, by]>>,
                        \* `by` telling what gave the editor its state last:
                        \* "create", "user", "update" or "swap"
  EDITOR_STATE_MAP,     \* documentId -> <<>> or <<snapshot>>
  on_change,            \* the debounce/throttle wrapper in use
  orphans,              \* handle_change calls still pending in replaced wrappers
  store,                \* instanceStore: <<>> or <<last published record>>
  notifications,        \* the events fired on the node and their cause: the
                        \* transactions `heard` by the update listener, the
                        \* number of `change` and `textChange` events, the
                        \* swap-cause `flag` of the last change event, the
                        \* detail of the last textChange event (`text`), and
                        \* who changed the editor state since the last run
                        \* of handle_change (`unreported`)
  calls,                \* the update() invocations, in call order
  destroys,             \* destroy() calls: how many were `made`, how many of
                        \* them `early` (before the editor existed), the
                        \* `pending` callbacks queued behind editor_initialized
                        \* (each with the number of update() calls made before
                        \* it), how often view.destroy() has `released` and
                        \* how many of the calls `threw`
  userOps,              \* user edits and undos so far
  adapter               \* the React component that hosts the instance: whether
                        \* its last effect returned destroy as its `cleanup`
                        \* and whether it is `unmounted`

vars ==
  << inputs, mount, initialized, options, value, internal_extensions,
     document_changed, view, EDITOR_STATE_MAP, on_change, orphans, store,
     notifications, calls, destroys, userOps, adapter >>

\* the state of the live editor
State == view[1].state

\* debounce(handle_change, duration) / throttle(handle_change, duration):
\* `timeout` is the pending debounce timer, `should_wait` the open throttle
\* window (its timer is pending exactly then), `last_args` the coalesced call
NewWrapper(kind) ==
  [kind |-> kind, timeout |-> FALSE, should_wait |-> FALSE, last_args |-> FALSE]

\* the `kind` of an onChangeBehavior value, 'debounce' by default
BehaviorKind(b) == IF b = "throttle50" THEN "throttle" ELSE "debounce"

\* the record handle_change publishes
Published(state) ==
  <<[value |-> state.doc, extensions |-> internal_extensions]>>

\* the events handle_change fires when the editor is in `state` and the
\* events so far are `n`: a textChange if the text differs from `value`, and
\* a change, both with the flag document_changed
Fired(n, state) ==
  [n EXCEPT
     !.change = @ + 1,
     !.flag = <<document_changed>>,
     !.textChange = IF ~is_equal(state.doc, value) THEN @ + 1 ELSE @,
     !.text = IF ~is_equal(state.doc, value)
              THEN <<[value |-> state.doc, documentChanged |-> document_changed]>>
              ELSE @,
     !.unreported = {}]

\* (mutant) debounce on the leading edge
debounce_execAsap_Leading == TRUE

\* `execAsap = false`: codemirror never passes the third argument of debounce
debounce_execAsap == FALSE

\* (mutant) the throttle wrapper never holds a call back
throttle_waits_Never(w) == FALSE

\* `if (should_wait)` in throttled(): a window is open
throttle_waits(w) == w.should_wait

\* a call of on_change(view_update) by the update listener, with `state` the
\* editor state after the transaction and `by` who dispatched it: the wrapper
\* after the call, and `value`, `store` and the events after handle_change
\* if the wrapper runs it at once (throttle, outside a window)
Listener(state, by) ==
  LET heard == [notifications EXCEPT !.heard = @ + 1, !.unreported = @ \cup {by}]
      waits == [value |-> value, store |-> store, notifications |-> heard]
      runs == [value |-> state.doc, store |-> Published(state),
               notifications |-> Fired(heard, state)]
  IN IF on_change.kind = "debounce"
     THEN [wrapper |-> [on_change EXCEPT !.timeout = TRUE]]
            @@ (IF ~on_change.timeout /\ debounce_execAsap THEN runs ELSE waits)
     ELSE IF throttle_waits(on_change)
          THEN [wrapper |-> [on_change EXCEPT !.last_args = TRUE]] @@ waits
          ELSE [wrapper |-> [on_change EXCEPT !.should_wait = TRUE]] @@ runs

\* view.dispatch(tr): the state is updated and the update listener is
\* called; a destroyed view updates its state and calls no listener.  `by`
\* tells who dispatches: the "user" or an "update".
Dispatch(tr, by) ==
  LET next == ApplyTransaction(State, tr, options.documentId)
      heard == Listener(next, by)
  IN /\ view' = <<[view[1] EXCEPT !.state = next, !.by = by]>>
     /\ IF view[1].destroyed
        THEN UNCHANGED <<on_change, value, store, notifications>>
        ELSE /\ on_change' = heard.wrapper
             /\ value' = heard.value
             /\ store' = heard.store
             /\ notifications' = heard.notifications

--------------------------------------------------------------------------
(* The configurations of the host *)

DocOptions(v, id) ==
  [BaseOptions EXCEPT !.value = v, !.setup = "basic", !.documentId = id]

\* a configuration whose language cannot be resolved (no langMap)
BadLanguage(o) == [o EXCEPT !.lang = "xx"]

\* documents: texts vary, the document identity varies and may be absent,
\* and the extensions of one configuration fail to resolve
DocInputs ==
  { DocOptions(v, id) : v \in {TextA, TextB}, id \in DocIds \cup {Undefined} }
    \cup { BadLanguage(DocOptions(TextB, "docB")) }

\* swaps: texts vary, the document identity is always one of two, and the
\* host makes one update at a time
SwapInputs ==
  { DocOptions(v, id) : v \in {TextA, TextB}, id \in DocIds }

\* facets: one document, configurations that differ in one facet each
FacetBase ==
  [DocOptions(TextA, "docA") EXCEPT
     !.lang = "js", !.langMap = "maps1", !.theme = "theme1", !.tabSize = "4",
     !.extensions = "ext1"]

FacetInputs ==
  { FacetBase,
    [FacetBase EXCEPT !.value = TextB],
    [FacetBase EXCEPT !.theme = "theme2"],
    [FacetBase EXCEPT !.readonly = "true"],
    [FacetBase EXCEPT !.langMap = "mapsBad"],
    [FacetBase EXCEPT !.lang = "xx"],
    [FacetBase EXCEPT !.documentId = "docB"] }

\* lifecycle: the text or the document changes, or the language cannot be
\* resolved
LifecycleInputs ==
  { DocOptions(TextB, "docA"), DocOptions(TextA, "docB"),
    BadLanguage(DocOptions(TextA, "docA")) }

\* a configuration without a `value`
NoValue(o) == [o EXCEPT !.value = Undefined]

\* a configuration that asks for throttled notifications
Throttled(o) == [o EXCEPT !.onChangeBehavior = "throttle50"]

\* notifications: the text, the rate limiting or the document changes
NotificationInputs ==
  { DocOptions(TextB, "docA"), Throttled(DocOptions(TextB, "docA")),
    Throttled(DocOptions(TextA, "docB")) }

\* resolvers: one document, configurations that differ from ResolverBase in
\* one field a resolver reads
ResolverBase ==
  [DocOptions(TextA, "docA") EXCEPT
     !.setup = Undefined, !.lang = "js", !.langMap = "maps1", !.useTabs = "true",
     !.tabSize = "4", !.styles = "styles1", !.extensions = "ext1",
     !.autocomplete = "true"]

ResolverInputs ==
  { ResolverBase,
    [ResolverBase EXCEPT !.lang = Undefined],
    [ResolverBase EXCEPT !.lang = "xx"],
    [ResolverBase EXCEPT !.lang = "toString"],
    [ResolverBase EXCEPT !.lang = "jsSupport"],
    [ResolverBase EXCEPT !.langMap = Undefined],
    [ResolverBase EXCEPT !.langMap = "maps2"],
    [ResolverBase EXCEPT !.autocomplete = Undefined],
    [ResolverBase EXCEPT !.autocomplete = "false"],
    [ResolverBase EXCEPT !.autocomplete = "acOpts"],
    [ResolverBase EXCEPT !.useTabs = Undefined],
    [ResolverBase EXCEPT !.tabSize = Null],
    [ResolverBase EXCEPT !.tabSize = Undefined],
    [ResolverBase EXCEPT !.useTabs = Undefined, !.tabSize = Undefined],
    [ResolverBase EXCEPT !.styles = "styles2"],
    [ResolverBase EXCEPT !.extensions = "ext2"] }

\* adapter: the props the React component is rendered with
AdapterInputs ==
  { DocOptions(v, "docA") : v \in {TextA, TextB} }

\* throttle: one document under throttled notifications, the text changes
ThrottleInputs ==
  { Throttled(DocOptions(v, "docA")) : v \in {TextA, TextB} }

Inputs ==
  CASE inputs = "documents" -> DocInputs
    [] inputs = "swaps" -> SwapInputs
    [] inputs = "facets" -> FacetInputs
    [] inputs = "lifecycle" -> LifecycleInputs
    [] inputs = "notifications" -> NotificationInputs
    [] inputs = "throttle" -> ThrottleInputs
    [] inputs = "resolvers" -> ResolverInputs
    [] inputs = "adapter" -> AdapterInputs

\* the configuration the action is mounted with
InitialOptions ==
  CASE inputs = "documents" -> { DocOptions(TextA, id) : id \in {"docA", Undefined} }
    [] inputs = "swaps" -> { DocOptions(TextA, "docA") }
    [] inputs = "facets" -> { FacetBase }
    [] inputs = "lifecycle" ->
         { DocOptions(TextA, "docA"), BadLanguage(DocOptions(TextA, "docA")),
           NoValue(DocOptions(TextA, "docA")) }
    [] inputs = "notifications" ->
         { DocOptions(TextA, "docA"), Throttled(DocOptions(TextA, "docA")) }
    [] inputs = "throttle" -> { Throttled(DocOptions(TextA, "docA")) }
    [] inputs = "resolvers" -> ResolverInputs
    [] inputs = "adapter" -> AdapterInputs

\* the argument of codemirror(node, options): <<>> when the host passes no
\* options, <<options>> otherwise
MountArguments ==
  { <<o>> : o \in InitialOptions } \cup (IF inputs = "lifecycle" THEN {<<>>} ELSE {})

--------------------------------------------------------------------------
(* Initialization *)

\* `if (is_nullish(options)) throw new Error(...)`
codemirror_throws(argument) == argument = <<>>

\* The state after codemirror(node, options).  When the call threw there is
\* no instance and no handle: the variables of the instance then keep the
\* values of a configuration nobody can use.
Mounted ==
  /\ \E argument \in MountArguments :
       /\ mount = [argument |-> argument,
                   result |-> IF codemirror_throws(argument) THEN "threw" ELSE "returned"]
       /\ options = IF codemirror_throws(argument) THEN BaseOptions ELSE argument[1]
  /\ value = options.value
  /\ initialized = "pending"
  /\ internal_extensions = make_extensions(BaseOptions)
  /\ document_changed = FALSE
  /\ view = <<>>
  /\ EDITOR_STATE_MAP = [d \in DocIds |-> <<>>]
  /\ on_change = NewWrapper(BehaviorKind(options.onChangeBehavior))
  /\ orphans = 0
  /\ store = <<>>
  /\ notifications = [heard |-> 0, change |-> 0, textChange |-> 0, flag |-> <<>>,
                      text |-> <<>>, unreported |-> {}]
  /\ calls = <<>>
  /\ destroys = [made |-> 0, early |-> 0, pending |-> <<>>, released |-> 0,
                 threw |-> 0]
  /\ userOps = 0
  /\ adapter = [cleanup |-> FALSE, unmounted |-> FALSE]

\* the cursor position of the initial state: options.cursorPos ?? 0
InitialCursor(o) == IF is_nullish(o.cursorPos) THEN 0 ELSE Num(o.cursorPos)

\* the asynchronous initialization runs to its end: the extensions are
\* assembled, the state and the view are created and editor_initialized is
\* fulfilled; if a resolver throws nothing of this happens, and if the
\* engine throws the extension list is all that is left
Initialize ==
  /\ mount.result = "returned"
  /\ initialized = "pending"
  /\ IF make_extensions_fails(options)
     THEN /\ initialized' = "failed"
          /\ UNCHANGED <<internal_extensions, view>>
     ELSE IF \/ InitialCursor(options) > Len(EditorStateCreate(value, Empty, 0).doc)
             \/ \E c \in Compartments : Unrecognized(Resolve(c, options))
     THEN /\ initialized' = "failed"
          /\ internal_extensions' = make_extensions(options)
          /\ UNCHANGED view
     ELSE /\ initialized' = "ready"
          /\ internal_extensions' = make_extensions(options)
          /\ view' = <<[state |-> EditorStateCreate(value, make_extensions(options),
                                                    InitialCursor(options)),
                        destroyed |-> FALSE, by |-> "create"]>>
  /\ UNCHANGED <<inputs, mount, adapter, notifications, options, value, document_changed,
                 EDITOR_STATE_MAP, on_change, orphans, store, calls, destroys, userOps>>

--------------------------------------------------------------------------
(* update(new_options) *)

\* Positions of an update() invocation: the awaits it is suspended at
\*   "init"     await editor_initialized
\*   "effects"  await Promise.all([append_effect ...])
\*   "ext"      await internal_extensions_promise, after the dispatch
\*   "swap"     await internal_extensions_promise, inside the swap
\*   "final"    await make_extensions(new_options), the last statement
\* and "resolved" / "rejected" once it has settled.
Settled == {"resolved", "rejected"}

InFlight == {"effects", "ext", "swap", "final"}

\* an invocation that has just been made.  Besides new_options (`opts`) and
\* the locals `transaction`, `pre_transaction_state` and `old_state`, the
\* record keeps what the invocation has done so far: `prev` is the
\* configuration it compared new_options with, `text` the editor's text at
\* that moment, `dispatched` the transactions it dispatched, `swap` the
\* outgoing documentId of the swap it entered, `changing` / `changed` the
\* swap hooks it fired, `replaced` whether it replaced the editor state,
\* `alone` whether every earlier invocation had settled when it started,
\* `early` whether it was made before the editor existed, `steps` the steps
\* of the swap protocol it has taken, in their order.
NewCall(o) ==
  [opts |-> o, pc |-> "init", transaction |-> EmptyTransaction,
   pre_transaction_state |-> <<>>, old_state |-> <<>>,
   prev |-> <<>>, text |-> "", dispatched |-> <<>>, swap |-> <<>>,
   changing |-> FALSE, changed |-> FALSE, replaced |-> FALSE, alone |-> FALSE,
   early |-> FALSE, steps |-> <<>>]

\* the host of the "swaps" and the "resolvers" runs awaits the promise of each update() before
\* it calls the next; the other hosts call update() at any time
HostAwaits == inputs \in {"swaps", "resolvers"}

\* the host calls update(new_options)
Update ==
  /\ mount.result = "returned"
  /\ Len(calls) < MaxUpdates
  /\ HostAwaits => \A j \in DOMAIN calls : calls[j].pc \in Settled
  /\ \E o \in Inputs :
       calls' = Append(calls, [NewCall(o) EXCEPT !.early = initialized # "ready"])
  /\ UNCHANGED <<inputs, mount, adapter, notifications, initialized, options, value, internal_extensions,
                 document_changed, view, EDITOR_STATE_MAP, on_change, orphans,
                 store, destroys, userOps>>

\* the options each append_effect call looks at
OptionsList(c) ==
  CASE c = "setup" -> <<"setup">>
    [] c = "lang" -> <<"lang">>
    [] c = "tabs" -> <<"useTabs", "tabSize">>
    [] c = "theming" -> <<"theme">>
    [] c = "extensions" -> <<"extensions">>
    [] c = "readonly" -> <<"readonly">>
    [] c = "autocomplete" -> <<"autocomplete">>
    [] c = "linter" -> <<"lint", "lintOptions">>

\* append_effect(compartment, options_list, factory): <<>> when it pushes no
\* effect, else <<content>>; the content is Err when the factory throws
append_effect(c, new_options, old_options) ==
  LET names == OptionsList(c)
      present(k) == ~is_nullish(new_options[names[k]])
  IN IF \E k \in 1..Len(names) :
          present(k) /\ ~is_equal(new_options[names[k]], old_options[names[k]])
     THEN <<Resolve(c, new_options)>>
     ELSE IF \A k \in 1..Len(names) : ~present(k)
          THEN <<Empty>>
          ELSE <<>>

\* the wrapper after `options.onChangeBehavior` is compared with the new
\* one, and the handle_change calls left pending in a replaced wrapper
BehaviorChanged(o) == ~is_equal(options.onChangeBehavior, o.onChangeBehavior)

Pending(w) ==
  IF w.kind = "debounce" THEN w.timeout ELSE w.should_wait /\ w.last_args

\* lines 619-631 up to the last await: the wrapper is replaced if the
\* behaviour changed, and new_options becomes the previous configuration
Finish(i, c) ==
  /\ IF BehaviorChanged(c.opts)
     THEN /\ on_change' = NewWrapper(BehaviorKind(c.opts.onChangeBehavior))
          /\ orphans' = orphans + (IF Pending(on_change) THEN 1 ELSE 0)
     ELSE UNCHANGED <<on_change, orphans>>
  /\ options' = c.opts
  /\ calls' = [calls EXCEPT ![i] = [c EXCEPT !.pc = "final"]]

\* (mutant) the check that a previous documentId exists is left out
SwapCondition_AnyChange(o) == ~is_equal(options.documentId, o.documentId)

\* `!is_nullish(options.documentId) && !is_equal(options.documentId,
\* new_options.documentId)`
SwapCondition(o) ==
  ~is_nullish(options.documentId) /\ ~is_equal(options.documentId, o.documentId)

\* the steps of the swap protocol before its await: the snapshot is stored
\* and, with an incoming documentId, documentChanging is fired
SwapBegin(incoming) ==
  IF is_nullish(incoming) THEN <<"store">> ELSE <<"store", "documentChanging">>

\* (mutant) documentChanged is fired before the state is replaced
SwapCommit_HookFirst == <<"resolved", "documentChanged", "setState", "focus">>

\* the steps of the swap protocol from its await on
SwapCommit == <<"resolved", "setState", "focus", "documentChanged">>

\* lines 574-631 up to the next await, for the invocation record `c` as it
\* stands at line 574.  In a swap the snapshot is stored under the outgoing
\* documentId; with an incoming documentId the stored state of the incoming
\* document is looked up, documentChanging is fired and the invocation
\* awaits the extensions; otherwise the invocation goes on to its end.
FromSwapCheck(i, c) ==
  IF SwapCondition(c.opts)
  THEN /\ EDITOR_STATE_MAP' =
            [EDITOR_STATE_MAP EXCEPT ![options.documentId] = c.pre_transaction_state]
       /\ IF ~is_nullish(c.opts.documentId)
          THEN /\ calls' = [calls EXCEPT ![i] =
                    [c EXCEPT !.pc = "swap",
                              !.swap = <<options.documentId>>,
                              !.old_state = EDITOR_STATE_MAP[c.opts.documentId],
                              !.changing = TRUE,
                              !.steps = SwapBegin(c.opts.documentId)]]
               /\ UNCHANGED <<on_change, orphans, options>>
          ELSE Finish(i, [c EXCEPT !.swap = <<options.documentId>>,
                                   !.steps = SwapBegin(c.opts.documentId)])
  ELSE /\ UNCHANGED EDITOR_STATE_MAP
       /\ Finish(i, c)

\* the transaction built at lines 498-518, without its effects
BuildTransaction(o) ==
  [changes |-> IF ~is_equal(value, o.value)
               THEN <<[to |-> Len(State.doc), insert |-> o.value]>>
               ELSE <<>>,
   selection |-> IF ~is_nullish(o.cursorPos) /\ ~is_equal(options.cursorPos, o.cursorPos)
                 THEN <<Num(o.cursorPos)>>
                 ELSE <<>>,
   effects |-> NoEffects]

\* `is_equal(options.documentId, new_options.documentId) &&
\* !is_nullish(options.documentId)`
SameDocument(o) ==
  is_equal(options.documentId, o.documentId) /\ ~is_nullish(options.documentId)

\* The invocation resumes after `await editor_initialized` and runs to its
\* next await: the flag is reset, the transaction is built, the state is
\* serialized, and either the effects are collected (same document) or the
\* swap check is reached at once.  The reactions to editor_initialized, of
\* update() and of destroy(), run in the order in which they were attached.
UpdateStart(i) ==
  /\ calls[i].pc = "init"
  /\ initialized = "ready"
  /\ \A j \in 1..(i - 1) : calls[j].pc # "init"
  /\ \A k \in DOMAIN destroys.pending : destroys.pending[k] >= i
  /\ document_changed' = FALSE
  /\ LET o == calls[i].opts
         c == [calls[i] EXCEPT
                 !.transaction = BuildTransaction(o),
                 !.pre_transaction_state = <<toJSON(State, DocumentFields(o))>>,
                 !.prev = <<options>>,
                 !.text = State.doc,
                 !.alone = \A j \in DOMAIN calls : j # i => calls[j].pc \in Settled]
     IN IF SameDocument(o)
        THEN /\ calls' = [calls EXCEPT ![i] =
                  [c EXCEPT !.pc = "effects",
                            !.transaction.effects =
                               [f \in Compartments |-> append_effect(f, o, options)]]]
             /\ UNCHANGED <<EDITOR_STATE_MAP, on_change, orphans, options>>
        ELSE FromSwapCheck(i, c)
  /\ UNCHANGED <<inputs, mount, adapter, notifications, initialized, value, internal_extensions, view, store,
                 destroys, userOps>>

\* a factory called by an append_effect threw
EffectsFail(tr) == \E f \in Compartments : tr.effects[f] = <<Err>>

\* Promise.all of the append_effect calls settles: rejected if a factory
\* threw; otherwise the transaction is dispatched (the engine may throw) and
\* the invocation awaits the extension list
UpdateDispatch(i) ==
  /\ calls[i].pc = "effects"
  /\ LET c == calls[i]
     IN IF EffectsFail(c.transaction) \/ TransactionThrows(State, c.transaction)
        THEN /\ calls' = [calls EXCEPT ![i].pc = "rejected"]
             /\ UNCHANGED <<view, on_change, value, store, notifications>>
        ELSE /\ Dispatch(c.transaction, "update")
             /\ calls' = [calls EXCEPT ![i] =
                  [c EXCEPT !.pc = "ext",
                            !.dispatched = Append(c.dispatched, c.transaction)]]
  /\ UNCHANGED <<inputs, mount, adapter, initialized, options, internal_extensions,
                 document_changed, EDITOR_STATE_MAP, orphans, destroys, userOps>>

\* internal_extensions_promise settles after the dispatch: rejected, or the
\* list is kept and the invocation runs on from the swap check
UpdateExtensions(i) ==
  /\ calls[i].pc = "ext"
  /\ IF make_extensions_fails(calls[i].opts)
     THEN /\ calls' = [calls EXCEPT ![i].pc = "rejected"]
          /\ UNCHANGED <<internal_extensions, EDITOR_STATE_MAP, on_change,
                         orphans, options>>
     ELSE /\ internal_extensions' = make_extensions(calls[i].opts)
          /\ FromSwapCheck(i, calls[i])
  /\ UNCHANGED <<inputs, mount, adapter, notifications, initialized, value, document_changed, view, store,
                 destroys, userOps>>

\* (mutant) the state is replaced without awaiting the extension list
internal_extensions_promise_unawaited(o) == FALSE

\* `await internal_extensions_promise` inside the swap throws
internal_extensions_promise_rejects(o) == make_extensions_fails(o)

\* internal_extensions_promise settles inside the swap: rejected, or the
\* editor state is replaced by the stored state of the incoming document
\* (or a new one), the flag is set, documentChanged is fired and the
\* invocation runs on to its last await
UpdateSwap(i) ==
  /\ calls[i].pc = "swap"
  /\ LET c == calls[i]
         o == c.opts
         extensions == make_extensions(o)
     IN IF internal_extensions_promise_rejects(o)
        THEN /\ calls' = [calls EXCEPT ![i].pc = "rejected"]
             /\ UNCHANGED <<internal_extensions, view, document_changed,
                            on_change, orphans, options, notifications>>
        ELSE IF \E f \in Compartments : Unrecognized(extensions[f])
        THEN /\ internal_extensions' = extensions
             /\ calls' = [calls EXCEPT ![i].pc = "rejected"]
             /\ UNCHANGED <<view, document_changed, on_change, orphans, options,
                            notifications>>
        ELSE /\ internal_extensions' = extensions
             /\ view' = <<[view[1] EXCEPT
                    !.state =
                      IF c.old_state # <<>>
                      THEN fromJSON(c.old_state[1],
                                    [extensions |-> extensions, doc |-> o.value],
                                    DocumentFields(o))
                      ELSE EditorStateCreate(o.value, extensions, 0),
                    !.by = "swap"]>>
             /\ document_changed' = TRUE
             /\ notifications' = [notifications EXCEPT !.unreported = @ \cup {"swap"}]
             /\ Finish(i, [c EXCEPT !.replaced = TRUE, !.changed = TRUE,
                                     !.steps = c.steps \o SwapCommit])
  /\ UNCHANGED <<inputs, mount, adapter, initialized, value, EDITOR_STATE_MAP, store, destroys,
                 userOps>>

\* the last make_extensions settles, and with it the invocation (the
\* locals of a resolved invocation are gone)
UpdateFinal(i) ==
  /\ calls[i].pc = "final"
  /\ IF make_extensions_fails(calls[i].opts)
     THEN /\ calls' = [calls EXCEPT ![i].pc = "rejected"]
          /\ UNCHANGED internal_extensions
     ELSE /\ calls' = [calls EXCEPT ![i] = [NewCall(calls[i].opts) EXCEPT !.pc = "resolved"]]
          /\ internal_extensions' = make_extensions(calls[i].opts)
  /\ UNCHANGED <<inputs, mount, adapter, notifications, initialized, options, value, document_changed, view,
                 EDITOR_STATE_MAP, on_change, orphans, store, destroys, userOps>>

--------------------------------------------------------------------------
(* Scheduling: promise reactions run before the next task *)

\* (mutant) the callback of destroy() runs without waiting for the editor
then_editor_initialized_AtOnce == TRUE

\* `editor_initialized.then(...)`: the callback may run once the promise is
\* fulfilled
then_editor_initialized == initialized = "ready"

\* make_extensions(o) loads a module or calls a langMap factory, so that it
\* may settle in a later task; otherwise it settles within the microtasks
\* of the current one
LazyExtensions(o) ==
  \/ o.setup \in {"basic", "minimal"}
  \/ ~is_nullish(o.autocomplete)
  \/ is_function(o.lint)
  \/ o.lang \in LangKeys /\ truthy(o.langMap) /\ o.lang \in LangMapKeys(o.langMap)

\* the same for the factories the append_effect calls of a transaction await
LazyEffects(c) ==
  \/ c.transaction.effects["setup"] \notin {<<>>, <<Empty>>, <<Err>>}
  \/ c.transaction.effects["autocomplete"] \notin {<<>>, <<Empty>>}
  \/ c.transaction.effects["linter"] \notin {<<>>, <<Empty>>, <<Err>>}
  \/ /\ c.transaction.effects["lang"] \notin {<<>>, <<Empty>>}
     /\ c.opts.lang \in LangKeys /\ truthy(c.opts.langMap)
     /\ c.opts.lang \in LangMapKeys(c.opts.langMap)

\* an invocation is about to resume within the current task
MicrotaskPending ==
  \/ \E i \in DOMAIN calls :
       \/ calls[i].pc = "init" /\ initialized = "ready"
       \/ calls[i].pc = "effects" /\ ~LazyEffects(calls[i])
       \/ calls[i].pc \in {"ext", "swap", "final"} /\ ~LazyExtensions(calls[i].opts)
  \/ destroys.pending # <<>> /\ then_editor_initialized

\* user events and timers are tasks of their own
TaskCanRun == ~MicrotaskPending

--------------------------------------------------------------------------
(* The user, the timers and destroy() *)

\* the user edits the run allows
UserOpsLimit ==
  IF inputs \in {"lifecycle", "adapter"} THEN MaxLifecycleUserOps ELSE MaxUserOps

\* the editor accepts user input
Editable ==
  /\ view # <<>>
  /\ ~view[1].destroyed
  /\ State.comps["readonly"] # <<"readOnly", "true">>

\* the user types a character
UserEdit ==
  /\ TaskCanRun
  /\ Editable
  /\ userOps < UserOpsLimit
  /\ userOps' = userOps + 1
  /\ Dispatch(TypeTransaction(State), "user")
  /\ UNCHANGED <<inputs, mount, adapter, initialized, options, internal_extensions,
                 document_changed, EDITOR_STATE_MAP, orphans, calls, destroys>>

\* the user undoes the last recorded edit
UserUndo ==
  /\ TaskCanRun
  /\ Editable
  /\ userOps < UserOpsLimit
  /\ State.hist # <<>>
  /\ userOps' = userOps + 1
  /\ LET next == UndoState(State)
         heard == Listener(next, "user")
     IN /\ view' = <<[view[1] EXCEPT !.state = next, !.by = "user"]>>
        /\ on_change' = heard.wrapper
        /\ value' = heard.value
        /\ store' = heard.store
        /\ notifications' = heard.notifications
  /\ UNCHANGED <<inputs, mount, adapter, initialized, options, internal_extensions,
                 document_changed, EDITOR_STATE_MAP, orphans, calls, destroys>>

\* handle_change(view_update): the text of the editor becomes `value` (a
\* textChange is fired if it differs) and the record is published
handle_change ==
  /\ value' = State.doc
  /\ store' = Published(State)
  /\ notifications' = Fired(notifications, State)

\* the timer of the debounce wrapper fires: delayed()
DebounceTimer ==
  /\ TaskCanRun
  /\ on_change.kind = "debounce"
  /\ on_change.timeout
  /\ IF ~debounce_execAsap THEN handle_change
                           ELSE UNCHANGED <<value, store, notifications>>
  /\ on_change' = [on_change EXCEPT !.timeout = FALSE]
  /\ UNCHANGED <<inputs, mount, adapter, initialized, options, internal_extensions,
                 document_changed, view, EDITOR_STATE_MAP, orphans, calls,
                 destroys, userOps>>

\* the timer of the throttle wrapper fires: timeout_function()
ThrottleTimer ==
  /\ TaskCanRun
  /\ on_change.kind = "throttle"
  /\ on_change.should_wait
  /\ IF on_change.last_args
     THEN /\ handle_change
          /\ on_change' = [on_change EXCEPT !.last_args = FALSE]
     ELSE /\ on_change' = [on_change EXCEPT !.should_wait = FALSE]
          /\ UNCHANGED <<value, store, notifications>>
  /\ UNCHANGED <<inputs, mount, adapter, initialized, options, internal_extensions,
                 document_changed, view, EDITOR_STATE_MAP, orphans, calls,
                 destroys, userOps>>

\* a timer of a wrapper that update() has replaced fires its handle_change
OrphanTimer ==
  /\ TaskCanRun
  /\ orphans > 0
  /\ orphans' = orphans - 1
  /\ handle_change
  /\ UNCHANGED <<inputs, mount, adapter, initialized, options, internal_extensions,
                 document_changed, view, EDITOR_STATE_MAP, on_change, calls,
                 destroys, userOps>>

\* (mutant) destroy() calls view.destroy() itself, on a view that may not
\* exist yet
destroy_throws_WithoutView == view = <<>>

\* destroy() does nothing but attach a callback to a promise: it cannot
\* throw
destroy_throws == FALSE

\* `destroys` after a destroy() call
DestroyCalled ==
  IF destroy_throws
  THEN [destroys EXCEPT !.made = @ + 1, !.threw = @ + 1]
  ELSE [destroys EXCEPT
          !.made = @ + 1,
          !.early = @ + (IF initialized # "ready" THEN 1 ELSE 0),
          !.pending = Append(@, Len(calls))]

\* the host calls destroy(): `editor_initialized.then(() => view?.destroy())`
\* attaches a callback and returns
Destroy ==
  /\ mount.result = "returned"
  /\ destroys.made < MaxDestroys
  /\ destroys' = DestroyCalled
  /\ UNCHANGED <<inputs, mount, adapter, notifications, initialized, options, value, internal_extensions,
                 document_changed, view, EDITOR_STATE_MAP, on_change, orphans,
                 store, calls, userOps>>

\* the oldest callback runs, after the reactions attached before it:
\* view?.destroy() releases the view if there is one
DestroyRun ==
  /\ destroys.pending # <<>>
  /\ then_editor_initialized
  /\ \A j \in 1..destroys.pending[1] : calls[j].pc # "init"
  /\ IF view = <<>>
     THEN /\ destroys' = [destroys EXCEPT !.pending = Tail(@)]
          /\ UNCHANGED view
     ELSE /\ destroys' = [destroys EXCEPT !.pending = Tail(@), !.released = @ + 1]
          /\ view' = <<[view[1] EXCEPT !.destroyed = TRUE]>>
  /\ UNCHANGED <<inputs, mount, adapter, notifications, initialized, options, value, internal_extensions,
                 document_changed, EDITOR_STATE_MAP, on_change, orphans, store,
                 calls, userOps>>

--------------------------------------------------------------------------
(* The React component Codemirror *)

\* The component has rendered once and its effect has run: instance_ref was
\* empty, so the effect called codemirror(node, merged_options) and returned
\* no cleanup.  That is the state Mounted describes.

\* The props change (merged_options is a new object): React runs the
\* cleanup the last run of the effect returned, and then the effect, which
\* finds instance_ref set, calls update(merged_options) and returns
\* instance_ref.current.destroy as its cleanup.
Rerender ==
  /\ ~adapter.unmounted
  /\ Len(calls) < MaxUpdates
  /\ destroys' = IF adapter.cleanup THEN DestroyCalled ELSE destroys
  /\ \E o \in Inputs :
       calls' = Append(calls, [NewCall(o) EXCEPT !.early = initialized # "ready"])
  /\ adapter' = [adapter EXCEPT !.cleanup = TRUE]
  /\ UNCHANGED <<inputs, mount, notifications, initialized, options, value,
                 internal_extensions, document_changed, view, EDITOR_STATE_MAP,
                 on_change, orphans, store, userOps>>

\* the component unmounts: React runs the cleanup the last run of the effect
\* returned, if it returned one
Unmount ==
  /\ ~adapter.unmounted
  /\ destroys' = IF adapter.cleanup THEN DestroyCalled ELSE destroys
  /\ adapter' = [adapter EXCEPT !.unmounted = TRUE]
  /\ UNCHANGED <<inputs, mount, notifications, initialized, options, value,
                 internal_extensions, document_changed, view, EDITOR_STATE_MAP,
                 on_change, orphans, store, calls, userOps>>

--------------------------------------------------------------------------
(* Specification *)

\* the host updates the configuration, the user edits
Next ==
  \/ Initialize
  \/ Update
  \/ \E i \in DOMAIN calls : UpdateStart(i)
  \/ \E i \in DOMAIN calls : UpdateDispatch(i)
  \/ \E i \in DOMAIN calls : UpdateExtensions(i)
  \/ \E i \in DOMAIN calls : UpdateSwap(i)
  \/ \E i \in DOMAIN calls : UpdateFinal(i)
  \/ UserEdit
  \/ UserUndo
  \/ DebounceTimer

\* documents come and go
Init == inputs = "documents" /\ Mounted

Spec == Init /\ [][Next]_vars

\* two documents share the editor
InitSwaps == inputs = "swaps" /\ Mounted

SpecSwaps == InitSwaps /\ [][Next]_vars

\* one document, the facets vary
InitFacets == inputs = "facets" /\ Mounted

SpecFacets == InitFacets /\ [][Next]_vars

\* the life of an instance: mounted with or without options, updated,
\* edited and destroyed
NextLifecycle ==
  \/ Initialize
  \/ Update
  \/ \E i \in DOMAIN calls : UpdateStart(i)
  \/ \E i \in DOMAIN calls : UpdateDispatch(i)
  \/ \E i \in DOMAIN calls : UpdateExtensions(i)
  \/ \E i \in DOMAIN calls : UpdateSwap(i)
  \/ \E i \in DOMAIN calls : UpdateFinal(i)
  \/ UserEdit
  \/ DebounceTimer
  \/ Destroy
  \/ DestroyRun

InitLifecycle == inputs = "lifecycle" /\ Mounted

\* the notifications of an instance under either rate limiting: the timers
\* of the wrappers fire, also those of the wrappers update() has replaced
NextNotifications ==
  \/ Initialize
  \/ Update
  \/ \E i \in DOMAIN calls : UpdateStart(i)
  \/ \E i \in DOMAIN calls : UpdateDispatch(i)
  \/ \E i \in DOMAIN calls : UpdateExtensions(i)
  \/ \E i \in DOMAIN calls : UpdateSwap(i)
  \/ \E i \in DOMAIN calls : UpdateFinal(i)
  \/ UserEdit
  \/ DebounceTimer
  \/ ThrottleTimer
  \/ OrphanTimer

InitNotifications == inputs = "notifications" /\ Mounted

SpecNotifications == InitNotifications /\ [][NextNotifications]_vars

\* one document under throttled notifications
NextThrottle ==
  \/ Initialize
  \/ Update
  \/ \E i \in DOMAIN calls : UpdateStart(i)
  \/ \E i \in DOMAIN calls : UpdateDispatch(i)
  \/ \E i \in DOMAIN calls : UpdateExtensions(i)
  \/ \E i \in DOMAIN calls : UpdateFinal(i)
  \/ UserEdit
  \/ ThrottleTimer

InitThrottle == inputs = "throttle" /\ Mounted

SpecThrottle == InitThrottle /\ [][NextThrottle]_vars

\* a timer that is set fires, and a promise that can settle settles
SpecThrottleFair ==
  /\ SpecThrottle
  /\ WF_vars(Initialize)
  /\ WF_vars(\E i \in DOMAIN calls : UpdateStart(i))
  /\ WF_vars(\E i \in DOMAIN calls : UpdateDispatch(i))
  /\ WF_vars(\E i \in DOMAIN calls : UpdateExtensions(i))
  /\ WF_vars(\E i \in DOMAIN calls : UpdateFinal(i))
  /\ WF_vars(ThrottleTimer)

\* one document, every field a resolver reads varies; the host makes one
\* update at a time
NextResolvers ==
  \/ Initialize
  \/ Update
  \/ \E i \in DOMAIN calls : UpdateStart(i)
  \/ \E i \in DOMAIN calls : UpdateDispatch(i)
  \/ \E i \in DOMAIN calls : UpdateExtensions(i)
  \/ \E i \in DOMAIN calls : UpdateFinal(i)
  \/ DebounceTimer

InitResolvers == inputs = "resolvers" /\ Mounted

SpecResolvers == InitResolvers /\ [][NextResolvers]_vars

\* an instance hosted by the React component: the props change, the user
\* edits, the component unmounts
NextAdapter ==
  \/ Initialize
  \/ Rerender
  \/ Unmount
  \/ \E i \in DOMAIN calls : UpdateStart(i)
  \/ \E i \in DOMAIN calls : UpdateDispatch(i)
  \/ \E i \in DOMAIN calls : UpdateExtensions(i)
  \/ \E i \in DOMAIN calls : UpdateFinal(i)
  \/ UserEdit
  \/ DebounceTimer
  \/ DestroyRun

InitAdapter == inputs = "adapter" /\ Mounted

SpecAdapter == InitAdapter /\ [][NextAdapter]_vars

SpecLifecycle == InitLifecycle /\ [][NextLifecycle]_vars

\* the reactions to editor_initialized run once it is fulfilled
SpecLifecycleFair ==
  /\ SpecLifecycle
  /\ WF_vars(\E i \in DOMAIN calls : UpdateStart(i))
  /\ WF_vars(DestroyRun)

\* every promise that can settle settles: the initialization runs on, the
\* resolvers an update awaits settle, the reactions run
SpecLifecycleSettling ==
  /\ SpecLifecycle
  /\ WF_vars(Initialize)
  /\ WF_vars(\E i \in DOMAIN calls : UpdateStart(i))
  /\ WF_vars(\E i \in DOMAIN calls : UpdateDispatch(i))
  /\ WF_vars(\E i \in DOMAIN calls : UpdateExtensions(i))
  /\ WF_vars(\E i \in DOMAIN calls : UpdateSwap(i))
  /\ WF_vars(\E i \in DOMAIN calls : UpdateFinal(i))
  /\ WF_vars(DestroyRun)

--------------------------------------------------------------------------
(* Properties *)

\* the invocations that have started and not settled
Reconciling == { i \in DOMAIN calls : calls[i].pc \in InFlight }

\* C1: updates are serialized per instance: an update() called while an
\* earlier one is awaiting its resolvers does not start comparing or
\* dispatching until the earlier one has completed, so that at no time two
\* reconciliations are in flight against the same live editor.
C1_UpdatesSerialized == Cardinality(Reconciling) <= 1

\* the invocation has run past every dispatch and state replacement it makes
\* and is at its last await
AtEnd(c) == c.pc = "final"

\* C2: every update whose new `value` differs from the current text (the
\* text of the editor and the text the action remembers) dispatches exactly
\* one document-replace change, from 0 to the length of the previous
\* document, inserting the new value.
C2_ValueChangeDispatched ==
  \A i \in DOMAIN calls :
    LET c == calls[i]
    IN AtEnd(c) /\ c.transaction.changes # <<>> /\ c.opts.value # c.text
       => /\ Len(c.dispatched) = 1
          /\ c.dispatched[1].changes =
               <<[to |-> Len(c.text), insert |-> c.opts.value]>>

\* the fields each facet's resolver is computed from
FacetFields(f) ==
  CASE f = "setup" -> {"setup"}
    [] f = "lang" -> {"lang", "langMap"}
    [] f = "tabs" -> {"useTabs", "tabSize"}
    [] f = "theming" -> {"theme", "styles"}
    [] f = "extensions" -> {"extensions"}
    [] f = "readonly" -> {"readonly"}
    [] f = "autocomplete" -> {"autocomplete"}
    [] f = "linter" -> {"lint", "lintOptions"}

FacetUnchanged(f, old, new) == \A n \in FacetFields(f) : old[n] = new[n]

\* C3: minimality: a facet whose relevant fields are equal in the previous
\* and the new configuration gets no reconfigure effect in the dispatched
\* transaction.
C3_Minimality ==
  \A i \in DOMAIN calls :
    LET c == calls[i]
    IN c.dispatched # <<>>
       => \A f \in Compartments :
            FacetUnchanged(f, c.prev[1], c.opts)
            => c.dispatched[1].effects[f] = <<>>

\* C4: idempotence: an update with the configuration of the update that
\* completed before it produces no reconfigure effect for any compartment.
C4_Idempotence ==
  \A i \in DOMAIN calls :
    LET c == calls[i]
    IN /\ c.dispatched # <<>>
       /\ c.alone
       /\ c.prev[1] = c.opts
       /\ \E j \in 1..(i - 1) : calls[j].pc = "resolved" /\ calls[j].opts = c.opts
       => c.dispatched[1].effects = NoEffects

\* C5: atomic failure: an update that rejects because a facet resolver
\* threw has dispatched no transaction.
C5_AtomicFailure ==
  \A i \in DOMAIN calls :
    calls[i].pc = "rejected" => calls[i].dispatched = <<>>

\* the undo history of a state holds only edits made under documentId `d`
OwnedBy(hist, d) == \A k \in 1..Len(hist) : hist[k].owner = d

\* C6: history isolation: while document B is the current identity, the
\* undo history of the editor holds no edit made while another document A
\* was current.
C6_HistoryIsolation ==
  view # <<>> /\ options.documentId \in DocIds
  => \A k \in 1..Len(State.hist) :
       State.hist[k].owner \notin DocIds \ {options.documentId}

\* invocation i stores the snapshot of the outgoing document in this step
Stores(i) == calls[i].swap = <<>> /\ calls'[i].swap # <<>>

\* invocation i replaces the editor state in this step
Replaces(i) == ~calls[i].replaced /\ calls'[i].replaced

\* the undo history a snapshot holds
SnapshotHistory(json) == IF json.history = <<>> THEN <<>> ELSE json.history[1]

\* C7: round trip of a swap, for a host that makes one update at a time:
\* the snapshot stored when a document is swapped out is the text and the
\* undo history the editor has at that moment; a swap into a document with
\* a snapshot shows that text with that history; and the history of the
\* current document and of every snapshot holds that document's edits only.
C7_RoundTripStored ==
  \A i \in DOMAIN calls :
    Stores(i)
    => /\ EDITOR_STATE_MAP'[options.documentId] # <<>>
       /\ EDITOR_STATE_MAP'[options.documentId][1].doc = State.doc
       /\ SnapshotHistory(EDITOR_STATE_MAP'[options.documentId][1]) = State.hist

C7_RoundTripRestored ==
  \A i \in DOMAIN calls :
    Replaces(i) /\ EDITOR_STATE_MAP[calls[i].opts.documentId] # <<>>
    => LET json == EDITOR_STATE_MAP[calls[i].opts.documentId][1]
       IN /\ view'[1].state.doc = json.doc
          /\ view'[1].state.hist = SnapshotHistory(json)

C7_RoundTripOwned ==
  /\ view # <<>> => OwnedBy(State.hist, options.documentId)
  /\ \A d \in DocIds :
       EDITOR_STATE_MAP[d] # <<>> => OwnedBy(SnapshotHistory(EDITOR_STATE_MAP[d][1]), d)

C7_SwapRoundTrip ==
  /\ []C7_RoundTripOwned
  /\ [][C7_RoundTripStored /\ C7_RoundTripRestored]_vars

\* document A has been edited, swapped out, B edited, and A swapped back in
\* with its history
C7_Witness ==
  /\ options.documentId = "docA"
  /\ EDITOR_STATE_MAP["docB"] # <<>>
  /\ SnapshotHistory(EDITOR_STATE_MAP["docB"][1]) # <<>>
  /\ \E i \in DOMAIN calls :
       /\ calls[i].pc = "final" /\ calls[i].replaced
       /\ calls[i].old_state # <<>>
       /\ State.hist # <<>>
       /\ State.hist = SnapshotHistory(calls[i].old_state[1])
       /\ State.doc = TextA \o Typed

\* C8: on swap-in of a document that has a stored snapshot, the text of the
\* restored state is the new configuration's `value`.
C8_IncomingValueWinsStep ==
  \A i \in DOMAIN calls :
    Replaces(i) /\ calls[i].old_state # <<>>
    => view'[1].state.doc = calls[i].opts.value

C8_IncomingValueWins == [][C8_IncomingValueWinsStep]_vars

\* C9: swap failure: an update that rejects because the incoming document's
\* extension list failed to resolve has replaced no state and dispatched
\* nothing, and the step in which it rejects leaves the editor, the
\* remembered configuration and the snapshot map as they are; a state is
\* only ever replaced with an extension list that resolved.
C9_NoPartialSwap ==
  \A i \in DOMAIN calls :
    LET c == calls[i]
    IN /\ c.pc = "rejected" /\ c.changing => ~c.replaced /\ c.dispatched = <<>>
       /\ c.replaced => ~make_extensions_fails(c.opts)

C9_RejectingStep ==
  \A i \in DOMAIN calls :
    calls[i].pc = "swap" /\ calls'[i].pc = "rejected"
    => UNCHANGED <<view, options, EDITOR_STATE_MAP, internal_extensions>>

C9_SwapFailure == []C9_NoPartialSwap /\ [][C9_RejectingStep]_vars

\* an update was rejected inside a swap
C9_Witness ==
  \E i \in DOMAIN calls :
    calls[i].pc = "rejected" /\ calls[i].changing /\ calls[i].swap = <<"docA">>

\* C10: a snapshot is stored only in an update for which the previous
\* configuration's documentId is present and differs from the new one; the
\* swap hooks are fired and the state is replaced only by an update that
\* stored a snapshot and whose new documentId is present.
C10_StoreStep ==
  \A i \in DOMAIN calls :
    Stores(i)
    => /\ ~is_nullish(options.documentId)
       /\ options.documentId # calls[i].opts.documentId
       /\ calls'[i].swap = <<options.documentId>>

C10_SwapOnlyAfterStore ==
  \A i \in DOMAIN calls :
    LET c == calls[i]
    IN /\ c.swap # <<>> => c.swap[1] \in DocIds /\ c.swap[1] # c.opts.documentId
       /\ c.changing \/ c.changed \/ c.replaced
            => c.swap # <<>> /\ c.opts.documentId \in DocIds

C10_SwapOnlyOnChange == []C10_SwapOnlyAfterStore /\ [][C10_StoreStep]_vars

\* one update introduced a documentId without a swap, another one swapped
C10_Witness ==
  /\ \E i \in DOMAIN calls :
       /\ calls[i].pc = "final" /\ calls[i].swap = <<>>
       /\ is_nullish(calls[i].prev[1].documentId)
       /\ calls[i].opts.documentId \in DocIds
  /\ \E j \in DOMAIN calls : calls[j].replaced

\* C11: on every swap the snapshot stored is the one captured from the live
\* editor before any transaction or state replacement of that update was
\* applied; it is stored under the outgoing documentId, and it was captured
\* while that document was the current one, so that the map holds under a
\* key no content of another document.
C11_SnapshotStep ==
  \A i \in DOMAIN calls :
    Stores(i)
    => /\ EDITOR_STATE_MAP'[options.documentId] = calls'[i].pre_transaction_state
       /\ calls'[i].dispatched = <<>>
       /\ ~calls'[i].replaced
       /\ calls'[i].prev[1].documentId = options.documentId

C11_SnapshotOfOutgoing == [][C11_SnapshotStep]_vars

\* the order of the steps of a swap to a present documentId
SwapOrder ==
  <<"store", "documentChanging", "resolved", "setState", "focus", "documentChanged">>

IsPrefix(a, b) == Len(a) <= Len(b) /\ SubSeq(b, 1, Len(a)) = a

\* C12: in a swap to a present documentId the steps occur in the order
\* snapshot stored, document-changing, extension list resolved, state
\* replaced, focus, document-changed; document-changing is never emitted
\* after the state replacement of its swap, document-changed never before.
C12_SwapOrder ==
  \A i \in DOMAIN calls :
    LET c == calls[i]
    IN /\ ~is_nullish(c.opts.documentId) => IsPrefix(c.steps, SwapOrder)
       /\ c.changed => c.replaced /\ c.changing
       /\ c.replaced => c.steps = SwapOrder

C12_HookSteps ==
  \A i \in DOMAIN calls :
    /\ ~calls[i].changing /\ calls'[i].changing => ~calls'[i].replaced
    /\ ~calls[i].changed /\ calls'[i].changed => ~calls[i].replaced /\ calls'[i].replaced

C12_SwapProtocolOrder == []C12_SwapOrder /\ [][C12_HookSteps]_vars

\* a swap to a present documentId has run through all its steps
C12_Witness ==
  \E i \in DOMAIN calls :
    calls[i].pc = "final" /\ calls[i].changed /\ calls[i].steps = SwapOrder

\* C13: swap to nothing: when the previous documentId is present and the
\* new one is absent, the update stores the outgoing snapshot, fires no swap
\* hook and replaces no state, and its transaction (text, selection,
\* effects) is dispatched to the live editor.
C13_SwapToNothing ==
  \A i \in DOMAIN calls :
    LET c == calls[i]
    IN /\ AtEnd(c) /\ is_nullish(c.opts.documentId) /\ c.prev[1].documentId \in DocIds
       /\ c.transaction.changes # <<>>
       => /\ c.swap = <<c.prev[1].documentId>>
          /\ ~c.changing /\ ~c.changed /\ ~c.replaced
          /\ c.dispatched = <<c.transaction>>

\* C14: initialization happens before every update and destroy.  Until the
\* initialization has created the editor, no update() has left its first
\* await (nothing is dispatched, stored or replaced) and no destroy() has
\* released anything; once the editor exists, each of these calls takes
\* effect: the update starts to reconcile and the destroy releases the view.
C14_NothingBeforeInit ==
  initialized # "ready"
  => /\ view = <<>>
     /\ \A i \in DOMAIN calls : calls[i] = [NewCall(calls[i].opts) EXCEPT !.early = TRUE]
     /\ destroys.released = 0
     /\ Len(destroys.pending) = destroys.made
     /\ EDITOR_STATE_MAP = [d \in DocIds |-> <<>>]
     /\ store = <<>>

C14_EffectAfterInit ==
  /\ \A i \in 1..MaxUpdates :
       (initialized = "ready" /\ Len(calls) >= i /\ calls[i].pc = "init")
         ~> (Len(calls) >= i /\ calls[i].pc # "init")
  /\ \A n \in 1..MaxDestroys :
       (initialized = "ready" /\ destroys.made >= n) ~> (destroys.released >= n)

C14_InitializationFirst == []C14_NothingBeforeInit /\ C14_EffectAfterInit

\* an update() and a destroy() made before the editor existed have taken
\* effect after the initialization
C14_Witness ==
  /\ \E i \in DOMAIN calls : calls[i].early /\ calls[i].pc \in InFlight
  /\ destroys.early > 0
  /\ view # <<>> /\ view[1].destroyed

\* C15: destroy safety: no destroy() call throws, whether it is made before
\* the initialization has completed, after it, or on an instance that is
\* already destroyed; and a destroy() made before the initialization
\* completed releases the editor once it has completed.
C15_NeverThrows == destroys.threw = 0

C15_EarlyDestroyReleases ==
  (destroys.early > 0 /\ initialized = "ready") ~> (view # <<>> /\ view[1].destroyed)

C15_DestroySafety == []C15_NeverThrows /\ C15_EarlyDestroyReleases

\* destroy() was called before the editor existed and again afterwards, and
\* both callbacks have run, the second on a destroyed view
C15_Witness ==
  /\ destroys.early = 1
  /\ destroys.made = 2
  /\ destroys.pending = <<>>
  /\ view # <<>> /\ view[1].destroyed

\* C16: the editor view created by a mount is released exactly once, however
\* many times destroy() is called: view.destroy() is never executed a second
\* time.
C16_ReleasedOnce == destroys.released <= 1

\* C17: every InvalidConfiguration error is surfaced to the caller: when the
\* initial configuration cannot be resolved, the mount call has thrown (or
\* handed a rejection to its caller); an update() whose configuration
\* cannot be resolved does not resolve.
C17_ErrorsSurfaced ==
  /\ initialized = "failed" /\ make_extensions_fails(options) => mount.result = "threw"
  /\ \A i \in DOMAIN calls :
       calls[i].pc = "resolved" => ~make_extensions_fails(calls[i].opts)

\* C18: mount fails, and creates no editor, if the configuration is absent
\* or if its `value` is missing.
C18_MountRequiresValue ==
  mount.argument = <<>> \/ is_nullish(mount.argument[1].value)
  => mount.result = "threw" /\ view = <<>>

\* no update() is in flight and no change notification is waiting in the
\* debounce/throttle wrapper or in a replaced one
Quiet ==
  /\ \A i \in DOMAIN calls : calls[i].pc \in Settled
  /\ ~Pending(on_change)
  /\ orphans = 0

\* C19: after a successful initialization and after every successful
\* update the current record is published to the instance store: once the
\* editor exists and nothing is pending, the store holds a record, with the
\* text of the editor and the extension list in use.
C19_Published ==
  initialized = "ready" /\ Quiet
  => /\ store # <<>>
     /\ store[1].value = State.doc
     /\ store[1].extensions = internal_extensions

\* C20: every published record is consistent: a record is published only
\* after the transaction of an update has fully committed, with the
\* extension list resolved for the configuration whose transaction the
\* published view has applied, never with the list of an older one.
C20_PublishedStep ==
  store' # store
  => \A i \in DOMAIN calls :
       calls'[i].pc = "ext" /\ ~make_extensions_fails(calls'[i].opts)
       => store'[1].extensions = make_extensions(calls'[i].opts)

C20_PublishedConsistent == [][C20_PublishedStep]_vars

\* the update listener reports a transaction to on_change in this step
Heard == notifications'.heard = notifications.heard + 1

\* handle_change runs in this step
Fires == notifications'.change # notifications.change

\* the step is one of the wrapper of the given kind: update() does not
\* replace the wrapper and no timer of a replaced wrapper fires
WrapperStep(kind) ==
  /\ on_change.kind = kind
  /\ on_change'.kind = kind
  /\ orphans' = orphans

\* C21: under debounce a change event fires no notification but leaves one
\* pending (a pending one is cancelled and its timer restarted), and a
\* notification fires only when the timer expires with no further change
\* event: it is one state-changed notification and, the text being new, one
\* text-changed notification that carries the text the editor has then.  A
\* burst of three edits so produces one text-changed notification, with the
\* final text.
C21_DebounceStep ==
  WrapperStep("debounce")
  => /\ Heard => ~Fires /\ on_change'.timeout
     /\ Fires
        => /\ ~Heard
           /\ on_change.timeout /\ ~on_change'.timeout
           /\ notifications'.change = notifications.change + 1
           /\ notifications'.textChange =
                notifications.textChange + (IF State.doc # value THEN 1 ELSE 0)
           /\ State.doc # value => notifications'.text[1].value = State.doc
           /\ value' = State.doc

C21_Debounce == [][C21_DebounceStep]_vars

C21_Witness ==
  /\ on_change.kind = "debounce"
  /\ calls = <<>>
  /\ userOps = MaxUserOps
  /\ notifications.heard = MaxUserOps
  /\ notifications.change = 1
  /\ notifications.textChange = 1
  /\ notifications.text[1].value = State.doc
  /\ ~on_change.timeout

\* C22: under throttle a change event outside a window fires its
\* notification at once and opens a window; a change event inside a window
\* fires nothing and is kept; at the end of a window the kept event fires one
\* notification, with the text the editor has then, and a new window opens;
\* no other step fires a notification.  After any burst of edits the final
\* text is eventually delivered.
C22_ThrottleStep ==
  WrapperStep("throttle")
  => /\ Heard /\ ~on_change.should_wait
        => /\ notifications'.change = notifications.change + 1
           /\ value' = view'[1].state.doc
           /\ on_change'.should_wait
     /\ Heard /\ on_change.should_wait
        => /\ ~Fires
           /\ on_change'.should_wait /\ on_change'.last_args
     /\ ~Heard /\ Fires
        => /\ on_change.should_wait /\ on_change.last_args
           /\ on_change'.should_wait /\ ~on_change'.last_args
           /\ notifications'.change = notifications.change + 1
           /\ value' = State.doc

C22_Undelivered == view # <<>> /\ notifications.unreported # {}

C22_Delivered ==
  /\ view # <<>>
  /\ notifications.unreported = {}
  /\ value = State.doc
  /\ notifications.text # <<>> => notifications.text[1].value = State.doc

C22_Throttle ==
  /\ [][C22_ThrottleStep]_vars
  /\ C22_Undelivered ~> C22_Delivered

C22_Witness ==
  /\ on_change.kind = "throttle"
  /\ calls = <<>>
  /\ userOps = MaxUserOps
  /\ notifications.heard = MaxUserOps
  /\ notifications.change = 2
  /\ notifications.text # <<>>
  /\ notifications.text[1].value = State.doc
  /\ ~on_change.should_wait

\* C23: a state-changed notification is fired for every transaction
\* committed to the live editor: once nothing is pending any more, the
\* number of state-changed notifications equals the number of transactions
\* the update listener has reported.
C23_ChangePerTransaction ==
  Quiet => notifications.change = notifications.heard

\* C24: the flag of a notification is true only if a document swap is among
\* the changes it reports, and false only if something else than a swap is
\* among them; a user edit made after a swap has completed and been
\* reported is so notified with the flag false.
C24_FlagStep ==
  Fires
  => LET reported == notifications.unreported \cup
                       (IF Heard THEN {view'[1].by} ELSE {})
         flag == notifications'.flag[1]
     IN reported # {}
        => /\ flag => "swap" \in reported
           /\ ~flag => reported # {"swap"}

C24_FlagIsCause == [][C24_FlagStep]_vars

\* The resolver of compartment `c` is observed where the program applies it:
\* in the initialization, whose extension list the instance keeps, in the
\* effects an update collects, and in the extension list a settled update
\* leaves.  ResolvedAs(c, E) says that what is observed is what E gives for
\* the configuration, and that nothing succeeds where E fails.
ResolvedAs(c, E(_)) ==
  /\ calls = <<>>
     => /\ initialized = "ready" => internal_extensions[c] = E(options)
        /\ E(options) = Err => initialized # "ready"
  /\ \A i \in DOMAIN calls :
       /\ calls[i].pc = "effects"
          => calls[i].transaction.effects[c] \in {<<>>, <<Empty>>, <<E(calls[i].opts)>>}
       /\ calls[i].pc = "resolved" /\ i = Len(calls)
          => internal_extensions[c] = E(calls[i].opts)
       /\ E(calls[i].opts) = Err => calls[i].pc # "resolved"

\* the language of a configuration as C25 states it
C25_Language(o) ==
  IF is_nullish(o.lang) THEN Empty
  ELSE IF o.lang \in LangKeys
       THEN IF is_nullish(o.langMap) \/ o.lang \notin LangMapKeys(o.langMap)
            THEN Err
            ELSE LangMapCall(o.langMap, o.lang)
       ELSE <<o.lang>>

\* C25: for a string `lang` the language resolver returns the value of the
\* langMap factory stored under that key, and fails when the key is not in
\* langMap or langMap is absent; an absent `lang` resolves to empty and a
\* language support is returned as it is.
C25_LangResolved == ResolvedAs("lang", C25_Language)

\* the autocompletion of a configuration as C26 states it
C26_Autocompletion(o) ==
  IF is_nullish(o.autocomplete) \/ o.autocomplete = "false" THEN Empty
  ELSE <<"autocompletion", IF o.autocomplete = "true" THEN "{}" ELSE o.autocomplete>>

\* C26: `autocomplete` undefined or false resolves to the empty extension,
\* true or an options object to an autocompletion extension (with empty
\* options for true).
C26_AutocompleteResolved == ResolvedAs("autocomplete", C26_Autocompletion)

\* the indentation of a configuration as C27 states it
C27_Indentation(o) ==
  LET tabSize == IF is_nullish(o.tabSize) THEN "2" ELSE o.tabSize
  IN <<"tabSize", tabSize, "indentUnit",
       IF truthy(o.useTabs) THEN "tab" ELSE "spaces",
       IF truthy(o.useTabs) THEN "1" ELSE tabSize>>

\* C27: for every configuration, also with `tabSize` or `useTabs` undefined
\* or null, the indentation resolver gives a tab width and an indent unit (a
\* tab, or tabSize spaces), tabSize being 2 when unset.
C27_TabsResolved == ResolvedAs("tabs", C27_Indentation)

\* every field append_effect looks at for compartment `c` is absent in `o`
AllAbsent(c, o) ==
  \A k \in 1..Len(OptionsList(c)) : is_nullish(o[OptionsList(c)[k]])

\* C28: when all relevant fields of a facet are absent in the new
\* configuration, the update reconfigures the compartment to empty, but for
\* indentation and read-only to the re-resolved default (tab width 2 with a
\* two-space indent unit; editable).
C28_AbsencePolicy ==
  \A i \in DOMAIN calls :
    calls[i].pc = "effects"
    => \A c \in Compartments :
         AllAbsent(c, calls[i].opts)
         => calls[i].transaction.effects[c] =
              <<IF c \in {"tabs", "readonly"} THEN Resolve(c, BaseOptions) ELSE Empty>>

\* the fields the resolver of compartment `c` reads, as C29 lists them
C29_Reads(c) ==
  CASE c = "setup" -> {"setup"}
    [] c = "lang" -> {"lang", "langMap"}
    [] c = "tabs" -> {"useTabs", "tabSize"}
    [] c = "theming" -> {"theme", "styles"}
    [] c = "extensions" -> {"extensions"}
    [] c = "readonly" -> {"readonly"}
    [] c = "autocomplete" -> {"autocomplete"}
    [] c = "linter" -> {"lint", "lintOptions"}

\* C29: in every update in which a field that a facet's resolver reads
\* differs between the previous and the new configuration, also when the
\* field became absent while another field of the facet stays, the
\* transaction has one reconfigure effect for the facet's compartment, with
\* the resolver's result for the new configuration.
C29_EffectPerChange ==
  \A i \in DOMAIN calls :
    calls[i].pc = "effects"
    => \A c \in Compartments :
         (\E f \in C29_Reads(c) :
            ~is_equal(calls[i].opts[f], calls[i].prev[1][f]))
         => calls[i].transaction.effects[c] = <<Resolve(c, calls[i].opts)>>

\* C30: the equality test that decides whether a facet changed reports two
\* values equal only if they are the same value or have the same keys and
\* equal values at every level: two different extension lists or language
\* supports are never reported equal.
C30_DeepEqual ==
  \A i \in DOMAIN calls :
    calls[i].pc = "effects"
    => \A c \in Compartments :
         \A k \in 1..Len(OptionsList(c)) :
           LET new_option == calls[i].opts[OptionsList(c)[k]]
               old_option == calls[i].prev[1][OptionsList(c)[k]]
           IN is_equal(new_option, old_option) <=> new_option = old_option

\* C31: an update call that performs no swap dispatches exactly one
\* transaction, with the text change, the selection change and the facet
\* effects together: when such a call has reached its last await it has
\* dispatched one transaction.
C31_OneDispatch ==
  \A i \in DOMAIN calls :
    calls[i].pc = "final" /\ calls[i].swap = <<>>
    => Len(calls[i].dispatched) = 1

\* C32: latest configuration wins: once two update calls have both
\* resolved, the remembered configuration and the extension list are the
\* later call's, and no compartment holds a content resolved for another
\* configuration.
C32_LatestWins ==
  Len(calls) = 2 /\ calls[1].pc = "resolved" /\ calls[2].pc = "resolved"
  => /\ options = calls[2].opts
     /\ internal_extensions = make_extensions(calls[2].opts)
     /\ \A c \in Compartments :
          State.comps[c] # Empty => State.comps[c] = Resolve(c, calls[2].opts)

\* C33: the document-replace change an update dispatches spans the whole
\* document as it is at the moment of the dispatch: when an invocation
\* leaves its await of the effects with a transaction that changes the
\* text, the end of the change is the length of the document at that
\* moment.
C33_WholeDocumentStep ==
  \A i \in DOMAIN calls :
    /\ calls[i].pc = "effects"
    /\ calls'[i].pc # "effects"
    /\ ~EffectsFail(calls[i].transaction)
    /\ calls[i].transaction.changes # <<>>
    => calls[i].transaction.changes[1].to = Len(State.doc)

C33_WholeDocument == [][C33_WholeDocumentStep]_vars

\* C34: an update whose new `value` equals the text the editor has when the
\* update compares it dispatches no document-replace change, also while
\* the notification of the latest changes has not fired yet.
C34_EchoIsNoChange ==
  \A i \in DOMAIN calls :
    calls[i].pc = "effects" /\ calls[i].opts.value = calls[i].text
    => calls[i].transaction.changes = <<>>

\* C35: destroyed is terminal: once destroy has released the editor, no
\* step dispatches a transaction to it or replaces its state.
C35_TerminalStep ==
  view # <<>> /\ view[1].destroyed => view' = view

C35_DestroyedIsTerminal == [][C35_TerminalStep]_vars

\* C36: after destroy has released the editor no text-changed or
\* state-changed notification is emitted and nothing is published to the
\* instance store.
C36_SilentStep ==
  view # <<>> /\ view[1].destroyed
  => /\ notifications'.change = notifications.change
     /\ notifications'.textChange = notifications.textChange
     /\ store' = store

C36_SilentAfterDestroy == [][C36_SilentStep]_vars

\* C38: swap hooks are paired: an update that has settled and has emitted
\* documentChanging has emitted documentChanged as well.
C38_HooksPaired ==
  \A i \in DOMAIN calls :
    calls[i].pc \in Settled /\ calls[i].changing => calls[i].changed

\* C39: the snapshot stored under the outgoing documentId is the state of
\* the outgoing document at the instant that state is replaced.
C39_SnapshotStep ==
  \A i \in DOMAIN calls :
    ~calls[i].replaced /\ calls'[i].replaced
    => EDITOR_STATE_MAP[calls[i].swap[1]] =
         <<toJSON(State, DocumentFields(calls[i].opts))>>

C39_SnapshotAtReplacement == [][C39_SnapshotStep]_vars

C40_AdapterStep ==
  /\ destroys'.made > destroys.made => adapter'.unmounted
  /\ Len(calls') > Len(calls) => destroys'.made = 0

C40_AdapterLifecycle == [][C40_AdapterStep]_vars

====
